---- MODULE Spec2Model ----
(***************************************************************************)
(* Model of ObservationTools: the RV class and helper functions of         *)
(* utils/rv_utils.py, the main() routine of rv.py and the command-line     *)
(* section of visibility.py.                                               *)
(*                                                                         *)
(* Floating-point numbers are modelled as fixed-point integers in units of *)
(* 1/Scale; the non-finite results of numpy arithmetic (inf, nan) are one  *)
(* value NaN, and a Python str standing where a number is expected is the  *)
(* value StrVal.                                                           *)
(***************************************************************************)
EXTENDS Integers, Sequences, FiniteSets, TLC

\* ------------------------------------------------------------------------
\* Bounds of the model
\* ------------------------------------------------------------------------
MaxLen == 2
MaxIterCap == 3
MaxPoints == 3
MaxLines == 3

\* ------------------------------------------------------------------------
\* Fixed-point arithmetic: a float f is the integer round(f * Scale).  The
\* operations keep every intermediate value inside the 32-bit integers for
\* operands below 100.0 in magnitude.
\* ------------------------------------------------------------------------
Scale == 10000000
Pi == 31415927
TwoPi == 62831853
HalfPi == 15707963
NaN == -2000000000
StrVal == -2000000001

Abs(x) == IF x < 0 THEN -x ELSE x

IsNaN(x) == x = NaN

\* a / b rounded to the nearest integer, b # 0
RDiv(a, b) ==
    LET q == (2 * Abs(a) + Abs(b)) \div (2 * Abs(b))
    IN  IF (a < 0) # (b < 0) THEN -q ELSE q

FAdd(a, b) == IF IsNaN(a) \/ IsNaN(b) THEN NaN ELSE a + b
FSub(a, b) == IF IsNaN(a) \/ IsNaN(b) THEN NaN ELSE a - b

\* a * b / Scale, by the four partial products of the halves of a and b
FMul(a, b) ==
    IF IsNaN(a) \/ IsNaN(b) THEN NaN
    ELSE LET x1 == Abs(a) \div 10000
             x0 == Abs(a) % 10000
             y1 == Abs(b) \div 10000
             y0 == Abs(b) % 10000
             mid == x1 * y0 + x0 * y1 + (x0 * y0) \div 10000
             p == 10 * (x1 * y1) + RDiv(mid, 1000)
         IN  IF (a < 0) # (b < 0) THEN -p ELSE p

\* long division: k more decimal digits of r / y appended to acc, rounded
RECURSIVE LongDiv(_, _, _, _)
LongDiv(r, y, k, acc) ==
    IF k = 0 THEN acc + (IF 2 * r >= y THEN 1 ELSE 0)
    ELSE LongDiv((r * 10) % y, y, k - 1, acc * 10 + (r * 10) \div y)

\* numpy division a / b: a zero divisor gives inf or nan (a warning, no
\* exception)
FDiv(a, b) ==
    IF IsNaN(a) \/ IsNaN(b) \/ b = 0 THEN NaN
    ELSE LET q == LongDiv(Abs(a) % Abs(b), Abs(b), 7, Abs(a) \div Abs(b))
         IN  IF (a < 0) # (b < 0) THEN -q ELSE q

\* reduce an angle to (-Pi, Pi]
Wrap(x) ==
    LET r == x % TwoPi
    IN  IF r > Pi THEN r - TwoPi ELSE r

\* the Taylor series of the sine from the term of index k on
RECURSIVE SinSeries(_, _, _, _)
SinSeries(term, x2, k, acc) ==
    IF term = 0 \/ k > 8 THEN acc
    ELSE LET next == -RDiv(FMul(term, x2), (2 * k) * (2 * k + 1))
         IN  SinSeries(next, x2, k + 1, acc + next)

\* sine of an angle in [-HalfPi, HalfPi]
SinCore(x) == SinSeries(x, FMul(x, x), 1, x)

\* np.sin
Sin(x) ==
    IF IsNaN(x) THEN NaN
    ELSE LET w == Wrap(x)
         IN  IF w > HalfPi THEN SinCore(Pi - w)
             ELSE IF w < -HalfPi THEN SinCore(-Pi - w)
             ELSE SinCore(w)

\* np.cos
Cos(x) == IF IsNaN(x) THEN NaN ELSE Sin(x + HalfPi)

RECURSIVE SqrtSearch(_, _, _)
SqrtSearch(x, lo, hi) ==
    IF hi - lo <= 1 THEN (IF FMul(hi, hi) <= x THEN hi ELSE lo)
    ELSE LET mid == (lo + hi) \div 2
         IN  IF FMul(mid, mid) <= x THEN SqrtSearch(x, mid, hi)
             ELSE SqrtSearch(x, lo, mid)

\* np.sqrt of a number below 4.0; a negative argument gives nan
Sqrt(x) ==
    IF IsNaN(x) \/ x < 0 THEN NaN
    ELSE IF x = 0 THEN 0
    ELSE SqrtSearch(x, 0, 2 * Scale)

\* angle in [0, HalfPi] of the point (b, a), a >= 0, b >= 0, by bisection
RECURSIVE AtanSearch(_, _, _, _)
AtanSearch(a, b, lo, hi) ==
    IF hi - lo <= 1
    THEN (IF Abs(FMul(a, Cos(lo)) - FMul(b, Sin(lo)))
               <= Abs(FMul(a, Cos(hi)) - FMul(b, Sin(hi)))
          THEN lo ELSE hi)
    ELSE LET mid == (lo + hi) \div 2
         IN  IF FMul(a, Cos(mid)) - FMul(b, Sin(mid)) >= 0
             THEN AtanSearch(a, b, mid, hi)
             ELSE AtanSearch(a, b, lo, mid)

\* np.arctan2(y, x), result in [-Pi, Pi]
Atan2(y, x) ==
    IF IsNaN(y) \/ IsNaN(x) THEN NaN
    ELSE IF x = 0 /\ y = 0 THEN 0
    ELSE LET t == AtanSearch(Abs(y), Abs(x), 0, HalfPi)
         IN  IF x >= 0 THEN (IF y >= 0 THEN t ELSE -t)
             ELSE (IF y >= 0 THEN Pi - t ELSE t - Pi)

\* np.deg2rad(x) and x * np.pi / 180
DegToRad(x) == IF IsNaN(x) THEN NaN ELSE FMul(RDiv(x, 180), Pi)

\* ------------------------------------------------------------------------
\* Sequences as one-dimensional arrays
\* ------------------------------------------------------------------------
RECURSIVE SumAbsDiff(_, _)
SumAbsDiff(a, b) ==
    IF Len(a) = 0 THEN 0
    ELSE LET d == FSub(a[1], b[1])
             r == SumAbsDiff(Tail(a), Tail(b))
         IN  IF IsNaN(d) \/ IsNaN(r) THEN NaN ELSE Abs(d) + r

\* np.linalg.norm(ea - ea0, ord=1)
NormL1(a, b) == SumAbsDiff(a, b)

\* the convergence tolerance 1e-5 as 1/TolInv
TolInv == 100000

\* norm > 1e-5; a comparison with nan is False
AboveTol(norm) == ~IsNaN(norm) /\ norm > Scale \div TolInv

\* ------------------------------------------------------------------------
\* State
\* ------------------------------------------------------------------------
VARIABLES
    pc,             \* position of the running program
    rv,             \* the RV instance (meaningful once pc has left "start")
    ctorArgs,       \* how the instance was constructed and from which mapping
    call,           \* the evaluation in progress, or the last one
    ma,             \* true_anomaly: the mean anomaly argument, as a sequence
    maKind,         \* true_anomaly: "scalar", "array" or "list"
    ecc,            \* true_anomaly: eccentricity argument
    niterationmax,  \* true_anomaly: iteration cap
    ea,             \* true_anomaly: current eccentric anomaly
    ea0,            \* true_anomaly: previous eccentric anomaly
    niteration,     \* true_anomaly: iterations performed
    lastNorm,       \* true_anomaly: L1 norm of the last change (ea - ea0)
    rvArgs,         \* arguments of the calls of radial_velocity in this call
    ret,            \* outcome of the last completed call
    paramsFile,     \* rv.py main: the lines of the parameter file
    mode,           \* rv.py main: the mode argument
    parameters,     \* rv.py main: the dictionary built from the file
    mainExc,        \* rv.py main: the exception that ended main, or ""
    mainAt,         \* rv.py main: the step at which main ended, or ""
    args,           \* visibility.py: the parsed command line
    targets,        \* visibility.py: the targets whose coordinates were found
    printed,        \* visibility.py: what was printed, in order
    exitStatus,     \* visibility.py: exit status of the script, -1 while running
    plotted         \* visibility.py: VisibilityPlot was called

rvVars == <<pc, rv, ctorArgs, call, ma, maKind, ecc, niterationmax, ea, ea0,
            niteration, lastNorm, rvArgs, ret>>

rvData == <<rv, ctorArgs, call, ma, maKind, ecc, niterationmax, ea, ea0,
            niteration, lastNorm, rvArgs, ret>>

mainVars == <<paramsFile, mode, parameters, mainExc, mainAt>>

visVars == <<args, targets, printed, exitStatus, plotted>>

\* ------------------------------------------------------------------------
\* Python values and outcomes
\* ------------------------------------------------------------------------
NoRet == [kind |-> "none", exc |-> "", shape |-> "none", val |-> <<>>]
Raise(e) == [kind |-> "raise", exc |-> e, shape |-> "none", val |-> <<>>]
Value(sh, v) == [kind |-> "value", exc |-> "", shape |-> sh, val |-> v]

EmptyDict == [k \in {} |-> 0]

\* a call: the operation, the kind and the elements of its argument t or
\* ma, and for RV_from_params the mapping and the list made of it
NoCall == [op |-> "none", tKind |-> "none", t |-> <<>>, params |-> EmptyDict,
           plist |-> <<>>]
Call(op, kind, t) == [op |-> op, tKind |-> kind, t |-> t, params |-> EmptyDict,
                      plist |-> <<>>]

\* dict.update(other): the entries of other replace those of d
DictUpdate(d, other) == other @@ d

Vocabulary == {"k1", "period", "eccentricity", "tau", "mean_val", "omega"}

\* ------------------------------------------------------------------------
\* class RV
\* ------------------------------------------------------------------------
\* the mapping with the entries of tau and mean_val exchanged
param_dict_Swapped(self) ==
    [k \in Vocabulary |->
        CASE k = "k1" -> self.semi_amp
          [] k = "period" -> self.period
          [] k = "eccentricity" -> self.ecc
          [] k = "tau" -> self.gamma
          [] k = "mean_val" -> self.tau
          [] k = "omega" -> self.omega]

param_dict(self) ==
    [k \in Vocabulary |->
        CASE k = "k1" -> self.semi_amp
          [] k = "period" -> self.period
          [] k = "eccentricity" -> self.ecc
          [] k = "tau" -> self.tau
          [] k = "mean_val" -> self.gamma
          [] k = "omega" -> self.omega]

\* RV.__init__; other_params is the mapping of the extra keyword arguments
RVInit(semi_amp, period, e, tau, gamma, omega, other_params) ==
    LET self == [semi_amp |-> semi_amp, period |-> period, ecc |-> e,
                 tau |-> tau, gamma |-> gamma, omega |-> omega]
    IN  [semi_amp |-> semi_amp, period |-> period, ecc |-> e,
         tau |-> tau, gamma |-> gamma, omega |-> omega,
         params |-> DictUpdate(param_dict(self), other_params)]

\* RV.from_dict: the mapping is passed as the keyword argument other_params,
\* so **other_params of __init__ is the one-entry mapping
\* {"other_params": params}
from_dict(params) ==
    RVInit(params["k1"], params["period"], params["eccentricity"],
           params["tau"], params["mean_val"], params["omega"],
           [k \in {"other_params"} |-> params])

DefaultRV == RVInit(0, 0, 0, 0, 0, 0, EmptyDict)

\* RV.mean_anomaly on the elements of times
mean_anomaly(times, t0, period) ==
    [i \in 1..Len(times) |->
        FDiv(FMul(2 * Pi, FSub(times[i], t0)), period)]

\* RV.radial_velocity, vectorised over ta
radial_velocity(gamma, k, ta, omega, e) ==
    [i \in 1..Len(ta) |->
        FAdd(gamma, FMul(k, FAdd(Cos(FAdd(ta[i], omega)),
                                 FMul(e, Cos(omega)))))]

\* one pass of the body of the Newton loop of RV.true_anomaly
NewtonStep(eaSeq, maSeq, e) ==
    [i \in 1..Len(eaSeq) |->
        LET ff == FSub(FSub(eaSeq[i], FMul(e, Sin(eaSeq[i]))), maSeq[i])
            dff == FSub(Scale, FMul(e, Cos(eaSeq[i])))
        IN  FSub(eaSeq[i], FDiv(ff, dff))]

Half(x) == IF IsNaN(x) THEN NaN ELSE RDiv(x, 2)

\* the conversion without the factor 2
TrueFromEccentric_NoDouble(eaSeq, e) ==
    [i \in 1..Len(eaSeq) |->
        Atan2(FMul(Sqrt(Scale + e), Sin(Half(eaSeq[i]))),
              FMul(Sqrt(Scale - e), Cos(Half(eaSeq[i]))))]

\* the conversion of eccentric to true anomaly at the end of RV.true_anomaly
TrueFromEccentric(eaSeq, e) ==
    [i \in 1..Len(eaSeq) |->
        LET a == Atan2(FMul(Sqrt(Scale + e), Sin(Half(eaSeq[i]))),
                       FMul(Sqrt(Scale - e), Cos(Half(eaSeq[i]))))
        IN  IF IsNaN(a) THEN NaN ELSE 2 * a]

\* RV.max_amp
max_amp(self) ==
    LET c == Cos(DegToRad(self.omega))
        amp_1 == FMul(self.semi_amp, FAdd(Scale, FMul(self.ecc, c)))
        amp_2 == FMul(self.semi_amp, FSub(Scale, FMul(self.ecc, c)))
    IN  IF IsNaN(amp_1) \/ IsNaN(amp_2) THEN NaN
        ELSE IF Abs(amp_1) >= Abs(amp_2) THEN Abs(amp_1) ELSE Abs(amp_2)

\* points values from 0 on in steps of 1/points, the end 1 left out
Linspace01_NoEndpoint(points) ==
    [i \in 1..points |-> RDiv((i - 1) * Scale, points)]

\* np.linspace(0, 1, points)
Linspace01(points) ==
    [i \in 1..points |->
        IF points = 1 THEN 0 ELSE RDiv((i - 1) * Scale, points - 1)]

\* ------------------------------------------------------------------------
\* Inputs
\* ------------------------------------------------------------------------
RECURSIVE SeqsUpTo(_, _)
SeqsUpTo(S, n) ==
    IF n = 0 THEN {<<>>}
    ELSE LET shorter == SeqsUpTo(S, n - 1)
         IN  shorter \cup {Append(q, x) : q \in {r \in shorter : Len(r) = n - 1}, x \in S}

Kinds == {"scalar", "array", "list"}

\* the values of a Python number, a numpy array or a list of the given kind
ValuesOf(kind, scalars, arrays) ==
    IF kind = "scalar" THEN scalars ELSE arrays

SemiAmpInputs == {0, 2 * Scale}
PeriodInputs == {0, 2 * Scale}
EccInputs == {0, Scale \div 2, (9 * Scale) \div 10}
TauInputs == {0, Scale}
GammaInputs == {0, Scale \div 2}
OmegaInputs == {0, 90 * Scale}
ExtraInputs == {EmptyDict, [k \in {"k2", "m_star"} |-> 5 * Scale]}
MaInputs == {0, Scale, Pi, 7 * Scale}
TimeInputs == {Scale \div 2, 3 * Scale}
PhaseInputs == {0, Scale \div 4}
CenterInputs == {0, Scale \div 2}
MaScalars == {<<x>> : x \in MaInputs}
MaArrays == SeqsUpTo(MaInputs, MaxLen)
TimeScalars == {<<x>> : x \in TimeInputs}
TimeArrays == SeqsUpTo(TimeInputs, MaxLen)
PhaseScalars == {<<x>> : x \in PhaseInputs}
PhaseArrays == SeqsUpTo(PhaseInputs, MaxLen)
DefaultIterMax == 10000
IterMaxInputs == (1..MaxIterCap) \cup {DefaultIterMax}

\* parameter mappings handed to RV.from_dict and RV_from_params
DictsWith(Omegas) ==
    {extra @@ [k \in Vocabulary |->
                 CASE k = "k1" -> 2 * Scale
                   [] k = "period" -> p
                   [] k = "eccentricity" -> e
                   [] k = "tau" -> Scale
                   [] k = "mean_val" -> Scale \div 2
                   [] k = "omega" -> w] :
        p \in PeriodInputs, e \in {0, Scale \div 2}, w \in Omegas,
        extra \in ExtraInputs}

\* mappings of numbers, one of them without the key tau
DictInputs ==
    DictsWith(OmegaInputs) \cup {[k \in Vocabulary \ {"tau"} |-> 2 * Scale]}

\* the same, and mappings whose omega was left a str by the parameter file
ParamInputs == DictInputs \cup DictsWith({StrVal})

\* ------------------------------------------------------------------------
\* Initial state
\* ------------------------------------------------------------------------
NoCtor == [via |-> "none", src |-> EmptyDict]

RVIdle ==
    /\ call = NoCall
    /\ ma = <<>>
    /\ maKind = "none"
    /\ ecc = 0
    /\ niterationmax = 0
    /\ ea = <<>>
    /\ ea0 = <<>>
    /\ niteration = 0
    /\ lastNorm = 0
    /\ rvArgs = <<>>
    /\ ret = NoRet

RVInitState ==
    /\ pc = "start"
    /\ rv = DefaultRV
    /\ ctorArgs = NoCtor
    /\ RVIdle

\* where control goes when a call completes: a method of the instance
\* returns to the holder of the instance, a module-level call ends the run
StaticOps == {"true_anomaly", "RV_from_params"}
AfterCall == IF call.op \in StaticOps THEN "end" ELSE "idle"

\* ------------------------------------------------------------------------
\* Construction
\* ------------------------------------------------------------------------
\* RV(...): an omitted argument takes the default 0.0, which every input
\* set contains
RVNew ==
    /\ pc = "start"
    /\ \E semi_amp \in SemiAmpInputs, period \in PeriodInputs,
          e \in {0, (9 * Scale) \div 10},
          tau \in TauInputs, gamma \in GammaInputs, omega \in OmegaInputs,
          other \in ExtraInputs :
          /\ rv' = RVInit(semi_amp, period, e, tau, gamma, omega, other)
          /\ ctorArgs' = [via |-> "init", src |-> other]
    /\ pc' = "idle"
    /\ UNCHANGED <<call, ma, maKind, ecc, niterationmax, ea, ea0, niteration,
                   lastNorm, rvArgs, ret>>
    /\ UNCHANGED <<mainVars, visVars>>

\* RV.from_dict(params); a missing key of the vocabulary is a KeyError
RVFromDict ==
    /\ pc = "start"
    /\ \E params \in DictInputs :
          /\ ctorArgs' = [via |-> "from_dict", src |-> params]
          /\ IF Vocabulary \subseteq DOMAIN params
             THEN /\ rv' = from_dict(params)
                  /\ pc' = "idle"
                  /\ ret' = ret
             ELSE /\ rv' = rv
                  /\ pc' = "end"
                  /\ ret' = Raise("KeyError")
    /\ UNCHANGED <<call, ma, maKind, ecc, niterationmax, ea, ea0, niteration,
                   lastNorm, rvArgs>>
    /\ UNCHANGED <<mainVars, visVars>>

\* ------------------------------------------------------------------------
\* RV.true_anomaly
\* ------------------------------------------------------------------------
\* lines 93-96: an int or float (np.float64 is a float) becomes a
\* one-element array, anything else is taken as it is
Promote(kind) == IF kind = "scalar" THEN "array" ELSE kind

\* the condition without the clause that forces the first pass
LoopCond_NoFirstPass == AboveTol(NormL1(ea, ea0))

\* the condition of the while loop
LoopCond == AboveTol(NormL1(ea, ea0)) \/ niteration = 0

\* entry of true_anomaly with the arguments ma (of kind k), e and cap n
EnterTrueAnomaly(m, k, e, n) ==
    /\ ma' = m
    /\ maKind' = k
    /\ ecc' = e
    /\ niterationmax' = n
    /\ ea' = <<>>
    /\ ea0' = <<>>
    /\ niteration' = 0
    /\ lastNorm' = 0
    /\ pc' = "ta_enter"

\* no frame of true_anomaly is left from an earlier call
NoSolver ==
    /\ ma' = <<>>
    /\ maKind' = "none"
    /\ ecc' = 0
    /\ niterationmax' = 0
    /\ ea' = <<>>
    /\ ea0' = <<>>
    /\ niteration' = 0
    /\ lastNorm' = 0

\* a direct call RV.true_anomaly(ma, ecc, niterationmax)
TrueAnomalyCall ==
    /\ pc = "start"
    /\ \E k \in Kinds, e \in EccInputs, n \in IterMaxInputs :
          \E m \in ValuesOf(k, MaScalars, MaArrays) :
             /\ call' = Call("true_anomaly", k, m)
             /\ EnterTrueAnomaly(m, k, e, n)
    /\ rvArgs' = <<>>
    /\ ret' = NoRet
    /\ UNCHANGED <<rv, ctorArgs>>
    /\ UNCHANGED <<mainVars, visVars>>

\* the checks in the other order: the length first, the list after it
ValidationError_LengthFirst(kind, m) ==
    IF Len(m) = 0 THEN "ValueError"
    ELSE IF kind = "list" THEN "TypeError"
    ELSE ""

\* lines 98-101: the exception the checks of ea raise, or ""
ValidationError(kind, m) ==
    IF kind = "list" THEN "TypeError"
    ELSE IF Len(m) = 0 THEN "ValueError"
    ELSE ""

\* the checks of the argument and the initialisation, lines 93-105
TAValidate ==
    /\ pc = "ta_enter"
    /\ IF ValidationError(Promote(maKind), ma) # ""
       THEN /\ ret' = Raise(ValidationError(Promote(maKind), ma))
            /\ pc' = AfterCall
            /\ UNCHANGED <<ea, ea0, lastNorm>>
       ELSE /\ ea' = ma
            /\ ea0' = ma
            /\ lastNorm' = NormL1(ma, ma)
            /\ pc' = "ta_loop"
            /\ ret' = ret
    /\ UNCHANGED <<rv, ctorArgs, call, ma, maKind, ecc, niterationmax,
                   niteration, rvArgs>>
    /\ UNCHANGED <<mainVars, visVars>>

\* the test that ends an iteration, line 118
CapReached(n, cap) == n >= cap

\* one pass of the loop with the update of ea done in place: in the first
\* pass ea is the array ma itself
TAIterate_InPlace ==
    /\ pc = "ta_loop"
    /\ LoopCond
    /\ ea0' = ea
    /\ ea' = NewtonStep(ea, ma, ecc)
    /\ ma' = IF niteration = 0 THEN ea' ELSE ma
    /\ lastNorm' = NormL1(ea', ea0')
    /\ niteration' = niteration + 1
    /\ IF CapReached(niteration', niterationmax)
       THEN /\ ret' = Raise("RuntimeError")
            /\ pc' = AfterCall
       ELSE /\ ret' = ret
            /\ pc' = "ta_loop"
    /\ UNCHANGED <<rv, ctorArgs, call, maKind, ecc, niterationmax, rvArgs>>
    /\ UNCHANGED <<mainVars, visVars>>

\* one pass of the while loop, lines 107-120
TAIterate ==
    /\ pc = "ta_loop"
    /\ LoopCond
    /\ ea0' = ea
    /\ ea' = NewtonStep(ea, ma, ecc)
    /\ lastNorm' = NormL1(ea', ea0')
    /\ niteration' = niteration + 1
    /\ IF CapReached(niteration', niterationmax)
       THEN /\ ret' = Raise("RuntimeError")
            /\ pc' = AfterCall
       ELSE /\ ret' = ret
            /\ pc' = "ta_loop"
    /\ UNCHANGED <<rv, ctorArgs, call, ma, maKind, ecc, niterationmax, rvArgs>>
    /\ UNCHANGED <<mainVars, visVars>>

\* the arguments the caller of true_anomaly hands to radial_velocity
KinematicsArgs ==
    IF call.op = "RV_from_params"
    THEN [gamma |-> call.plist[1], k |-> call.plist[2],
          omega |-> call.plist[3], ecc |-> call.plist[4]]
    ELSE [gamma |-> rv.gamma, k |-> rv.semi_amp,
          omega |-> rv.omega, ecc |-> rv.ecc]

\* the loop has ended: lines 122-124, and the rest of the caller
\* (rv_at_times line 54, rv_curve_py line 213)
TAReturn ==
    /\ pc = "ta_loop"
    /\ ~LoopCond
    /\ LET ta == TrueFromEccentric(ea, ecc)
           a == KinematicsArgs
       IN  IF call.op = "true_anomaly"
           THEN /\ ret' = Value(Promote(maKind), ta)
                /\ rvArgs' = rvArgs
           ELSE /\ rvArgs' = Append(rvArgs, a)
                /\ ret' = Value(Promote(maKind),
                                radial_velocity(a.gamma, a.k, ta, a.omega, a.ecc))
    /\ pc' = AfterCall
    /\ UNCHANGED <<rv, ctorArgs, call, ma, maKind, ecc, niterationmax, ea, ea0,
                   niteration, lastNorm>>
    /\ UNCHANGED <<mainVars, visVars>>

\* ------------------------------------------------------------------------
\* Evaluation methods of RV
\* ------------------------------------------------------------------------
\* rv_at_times(t) up to the call of true_anomaly; t - t0 with a list t is a
\* TypeError; mean_anomaly of a number is a np.float64, which is a float.
\* given is the list of the arguments of rv_full_phase when the call came
\* from it, kept with the call
RvAtTimesBody(op, kind, t, given) ==
    /\ rvArgs' = <<>>
    /\ IF kind = "list"
       THEN /\ call' = [Call(op, kind, t) EXCEPT !.plist = given]
            /\ ret' = Raise("TypeError")
            /\ pc' = "idle"
            /\ NoSolver
       ELSE /\ call' = [Call(op, kind, t) EXCEPT !.plist = given]
            /\ ret' = NoRet
            /\ EnterTrueAnomaly(mean_anomaly(t, rv.tau, rv.period), kind,
                                rv.ecc, DefaultIterMax)

rv_at_times ==
    /\ pc = "idle"
    /\ \E kind \in Kinds : \E t \in ValuesOf(kind, TimeScalars, TimeArrays) :
          RvAtTimesBody("rv_at_times", kind, t, <<>>)
    /\ UNCHANGED <<rv, ctorArgs>>
    /\ UNCHANGED <<mainVars, visVars>>

\* t = phase * self.period + self.tau
PhaseToTime(phase) ==
    [i \in 1..Len(phase) |-> FAdd(FMul(phase[i], rv.period), rv.tau)]

rv_at_phase ==
    /\ pc = "idle"
    /\ \E kind \in Kinds : \E phase \in ValuesOf(kind, PhaseScalars, PhaseArrays) :
          RvAtTimesBody("rv_at_phase", kind,
                        IF kind = "list" THEN phase ELSE PhaseToTime(phase),
                        <<>>)
    /\ UNCHANGED <<rv, ctorArgs>>
    /\ UNCHANGED <<mainVars, visVars>>

rv_full_phase ==
    /\ pc = "idle"
    /\ \E center \in CenterInputs, points \in 0..MaxPoints :
          LET phase == [i \in 1..points |-> Linspace01(points)[i] + center]
          IN  RvAtTimesBody("rv_full_phase", "array", PhaseToTime(phase),
                            <<center, points>>)
    /\ UNCHANGED <<rv, ctorArgs>>
    /\ UNCHANGED <<mainVars, visVars>>

MaxAmp ==
    /\ pc = "idle"
    /\ call' = Call("max_amp", "none", <<>>)
    /\ ret' = Value("scalar", <<max_amp(rv)>>)
    /\ rvArgs' = <<>>
    /\ NoSolver
    /\ UNCHANGED <<pc, rv, ctorArgs>>
    /\ UNCHANGED <<mainVars, visVars>>

\* the names of the scalar fields of an instance
ScalarFields == {"semi_amp", "period", "ecc", "tau", "gamma", "omega"}

\* RV.from_dict(self.param_dict()): the instance built from the mapping of
\* the instance at hand is the result of the call
RoundTrip ==
    /\ pc = "idle"
    /\ call' = Call("from_dict", "none", <<>>)
    /\ ret' = Value("RV", <<from_dict(param_dict(rv))>>)
    /\ rvArgs' = <<>>
    /\ NoSolver
    /\ UNCHANGED <<pc, rv, ctorArgs>>
    /\ UNCHANGED <<mainVars, visVars>>

\* ------------------------------------------------------------------------
\* RV_from_params and rv_curve_py
\* ------------------------------------------------------------------------
RV_from_params ==
    /\ pc = "start"
    /\ \E kind \in Kinds, params \in ParamInputs, ignore_mean \in BOOLEAN,
          companion \in BOOLEAN :
          \E t \in ValuesOf(kind, TimeScalars, TimeArrays) :
             LET kkey == IF companion THEN "k2" ELSE "k1"
                 needed == (Vocabulary \ {"k1"}) \cup {kkey}
                 tk == IF kind = "list" THEN "array" ELSE kind
                 sel == <<params["mean_val"], params[kkey], params["omega"],
                          params["eccentricity"], params["tau"], params["period"]>>
                 plist == [sel EXCEPT ![3] = DegToRad(sel[3]),
                                       ![1] = IF ignore_mean THEN 0 ELSE sel[1]]
                 c == [op |-> "RV_from_params", tKind |-> kind, t |-> t,
                       params |-> params, plist |-> <<>>]
             IN  IF ~(needed \subseteq DOMAIN params)
                 THEN /\ call' = c
                      /\ ret' = Raise("KeyError")
                      /\ pc' = "end"
                      /\ UNCHANGED <<ma, maKind, ecc, niterationmax, ea, ea0,
                                     niteration, lastNorm>>
                 ELSE IF \E i \in 1..6 : sel[i] = StrVal
                 THEN /\ call' = c
                      /\ ret' = Raise("TypeError")
                      /\ pc' = "end"
                      /\ UNCHANGED <<ma, maKind, ecc, niterationmax, ea, ea0,
                                     niteration, lastNorm>>
                 ELSE /\ call' = [c EXCEPT !.plist = plist]
                      /\ ret' = NoRet
                      /\ EnterTrueAnomaly(mean_anomaly(t, plist[5], plist[6]),
                                          tk, plist[4], DefaultIterMax)
    /\ rvArgs' = <<>>
    /\ UNCHANGED <<rv, ctorArgs>>
    /\ UNCHANGED <<mainVars, visVars>>

\* ------------------------------------------------------------------------
\* Python str as a sequence of characters
\* ------------------------------------------------------------------------
UpperCase == <<"A", "B", "C", "D", "E", "F", "G", "H", "I", "J", "K", "L", "M",
               "N", "O", "P", "Q", "R", "S", "T", "U", "V", "W", "X", "Y", "Z">>
LowerCase == <<"a", "b", "c", "d", "e", "f", "g", "h", "i", "j", "k", "l", "m",
               "n", "o", "p", "q", "r", "s", "t", "u", "v", "w", "x", "y", "z">>
Digits == <<"0", "1", "2", "3", "4", "5", "6", "7", "8", "9">>

IsSpace(c) == c \in {" ", "\n", "\t", "\r"}
IsDigit(c) == \E i \in 1..10 : Digits[i] = c
DigitVal(c) == (CHOOSE i \in 1..10 : Digits[i] = c) - 1

LowerChar(c) ==
    IF \E i \in 1..26 : UpperCase[i] = c
    THEN LowerCase[CHOOSE i \in 1..26 : UpperCase[i] = c]
    ELSE c

\* str.lower()
Lower(str) == [i \in 1..Len(str) |-> LowerChar(str[i])]

\* str.startswith(c) for a one-character prefix
StartsWith(str, c) == Len(str) > 0 /\ str[1] = c

RECURSIVE LStrip(_)
LStrip(str) ==
    IF Len(str) > 0 /\ IsSpace(str[1]) THEN LStrip(Tail(str)) ELSE str

RECURSIVE RStrip(_)
RStrip(str) ==
    IF Len(str) > 0 /\ IsSpace(str[Len(str)])
    THEN RStrip(SubSeq(str, 1, Len(str) - 1)) ELSE str

\* str.strip()
Strip(str) == RStrip(LStrip(str))

\* str.split(sep) for a one-character separator: the pieces between the
\* occurrences of sep, empty pieces included
RECURSIVE SplitFrom(_, _, _, _)
SplitFrom(str, sep, cur, acc) ==
    IF Len(str) = 0 THEN Append(acc, cur)
    ELSE IF str[1] = sep THEN SplitFrom(Tail(str), sep, <<>>, Append(acc, cur))
    ELSE SplitFrom(Tail(str), sep, Append(cur, str[1]), acc)

\* a split at the first occurrence of sep only
Split_AtFirst(str, sep) ==
    LET at == {i \in 1..Len(str) : str[i] = sep}
        first == CHOOSE i \in at : \A j \in at : i <= j
    IN  IF at = {} THEN <<str>>
        ELSE <<SubSeq(str, 1, first - 1), SubSeq(str, first + 1, Len(str))>>

Split(str, sep) == SplitFrom(str, sep, <<>>, <<>>)

RECURSIVE DigitsValue(_, _)
DigitsValue(str, acc) ==
    IF Len(str) = 0 THEN acc
    ELSE DigitsValue(Tail(str), 10 * acc + DigitVal(str[1]))

AllDigits(str) == Len(str) > 0 /\ \A i \in 1..Len(str) : IsDigit(str[i])

\* ------------------------------------------------------------------------
\* Numbers of the parameter file: a float f is the integer round(f * Cent)
\* ------------------------------------------------------------------------
Cent == 100

StrV(str) == [t |-> "str", s |-> str, v |-> 0]
FloatV(n) == [t |-> "float", s |-> <<>>, v |-> n]

\* the literals float() accepts here: digits, optionally followed by a
\* point and one or two digits
IsFloatLiteral(str) ==
    LET parts == Split(str, ".")
    IN  \/ AllDigits(str)
        \/ /\ Len(parts) = 2
           /\ AllDigits(parts[1])
           /\ AllDigits(parts[2])
           /\ Len(parts[2]) <= 2

\* float(str) of such a literal
StrToFloat(str) ==
    LET parts == Split(str, ".")
        whole == DigitsValue(parts[1], 0) * Cent
    IN  IF Len(parts) = 1 THEN whole
        ELSE IF Len(parts[2]) = 1 THEN whole + 10 * DigitsValue(parts[2], 0)
        ELSE whole + DigitsValue(parts[2], 0)

CMul(a, b) == RDiv(a * b, Cent)
CDiv(a, b) == RDiv(a * Cent, b)

NoExc(n) == [exc |-> "", v |-> n]
Exc(e) == [exc |-> e, v |-> 0]

\* rv.py companion_amplitude on values of the parameter dictionary:
\* arithmetic with a str is a TypeError, a float division by 0.0 a
\* ZeroDivisionError
companion_amplitude(k_host, m_host, m_companion) ==
    LET sun_jupiter_mass == 104756
    IN  IF m_host.t = "str" \/ k_host.t = "str" \/ m_companion.t = "str"
        THEN Exc("TypeError")
        ELSE IF m_companion.v = 0 THEN Exc("ZeroDivisionError")
        ELSE NoExc(CDiv(CMul(-k_host.v, CMul(m_host.v, sun_jupiter_mass)),
                        m_companion.v))

\* the function with the sign of the amplitude left out
rv_utils_companion_amplitude_Unsigned(k_host, m_host, m_companion) ==
    LET sun_jupiter_mass == 104756
    IN  IF m_host.t = "str" \/ k_host.t = "str" \/ m_companion.t = "str"
        THEN Exc("TypeError")
        ELSE IF m_companion.v = 0 THEN Exc("ZeroDivisionError")
        ELSE NoExc(CDiv(CMul(k_host.v, CMul(m_host.v, sun_jupiter_mass)),
                        m_companion.v))

\* utils/rv_utils.py companion_amplitude, the second copy of the function
rv_utils_companion_amplitude(k_host, m_host, m_companion) ==
    LET sun_jupiter_mass == 104756
        m_host_jup == IF m_host.t = "str" THEN 0
                      ELSE CMul(m_host.v, sun_jupiter_mass)
    IN  IF m_host.t = "str" \/ k_host.t = "str" \/ m_companion.t = "str"
        THEN Exc("TypeError")
        ELSE IF m_companion.v = 0 THEN Exc("ZeroDivisionError")
        ELSE NoExc(CDiv(CMul(-k_host.v, m_host_jup), m_companion.v))

\* arguments of a call of companion_amplitude: Python floats, and the str
\* a parameter file leaves for a key that is not converted
KHostInputs == {FloatV(10 * Cent), FloatV(3 * Cent)}
MHostInputs == {FloatV(Cent), FloatV(2 * Cent)}
MCompanionInputs == {FloatV(104756), FloatV(250), FloatV(-2 * Cent), FloatV(0),
                     StrV(<<"2", ".", "5">>)}

\* a direct call companion_amplitude(k_host, m_host, m_companion) of the
\* function of utils/rv_utils.py
CompanionAmplitudeCall ==
    /\ pc = "start"
    /\ \E k \in KHostInputs, m \in MHostInputs, mc \in MCompanionInputs :
          LET r == rv_utils_companion_amplitude(k, m, mc)
          IN  /\ call' = Call("companion_amplitude", "scalar", <<k, m, mc>>)
              /\ ret' = IF r.exc # "" THEN Raise(r.exc)
                        ELSE Value("scalar", <<r.v>>)
    /\ pc' = "end"
    /\ UNCHANGED <<rv, ctorArgs, ma, maKind, ecc, niterationmax, ea, ea0,
                   niteration, lastNorm, rvArgs>>
    /\ UNCHANGED <<mainVars, visVars>>

\* ------------------------------------------------------------------------
\* rv.py main
\* ------------------------------------------------------------------------
\* lines a parameter file is made of
LineComment == <<"#", " ", "k", "1", " ", "=", " ", "3", "\n">>
LineK1 == <<"K", "1", " ", "=", " ", "1", "0", "\n">>
LineMStar == <<"m", "_", "s", "t", "a", "r", "=", "1", "\n">>
LineMTrue == <<"m", "_", "t", "r", "u", "e", " ", "=", " ", "2", "\n">>
LineMsini == <<"m", "s", "i", "n", "i", " ", "=", " ", "2", ".", "5", "\n">>
LineK2 == <<"k", "2", " ", "=", " ", "5", "\n">>
LineName == <<"n", "a", "m", "e", " ", "=", " ", "H", "D", " ", "1", "\n">>
LineNoEq == <<"p", "e", "r", "i", "o", "d", "\n">>
LineTwoEq == <<"t", "a", "u", "=", "=", "1", "\n">>
LineBadFloat == <<"k", "1", " ", "=", " ", "t", "e", "n", "\n">>
LineZeroMass == <<"m", "_", "t", "r", "u", "e", " ", "=", " ", "0">>

LineInputs == {LineComment, LineK1, LineMStar, LineMTrue,
               LineMsini, LineK2, LineName, LineNoEq,
               LineTwoEq, LineBadFloat, LineZeroMass}
FileInputs == SeqsUpTo(LineInputs, MaxLines)

\* the keys main() turns into floats, line 73
FloatKeys ==
    {<<"m", "e", "a", "n", "_", "v", "a", "l">>,
     <<"k", "1">>,
     <<"o", "m", "e", "g", "a">>,
     <<"e", "c", "c", "e", "n", "t", "r", "i", "c", "i", "t", "y">>,
     <<"t", "a", "u">>,
     <<"p", "e", "r", "i", "o", "d">>,
     <<"m", "_", "s", "t", "a", "r">>,
     <<"m", "s", "i", "n", "i", " ">>,
     <<"m", "_", "t", "r", "u", "e">>}

Key_k1 == <<"k", "1">>
Key_k2 == <<"k", "2">>
Key_m_star == <<"m", "_", "s", "t", "a", "r">>
Key_m_true == <<"m", "_", "t", "r", "u", "e">>
Key_msini == <<"m", "s", "i", "n", "i">>

\* the loop over the lines of the file, lines 62-69; the result is the
\* dictionary, or the ValueError of unpacking split('=') into par, val
RECURSIVE LoadLines(_, _)
LoadLines(lines, dict) ==
    IF Len(lines) = 0 THEN [exc |-> "", dict |-> dict]
    ELSE IF StartsWith(lines[1], "#") THEN LoadLines(Tail(lines), dict)
    ELSE LET parts == Split(Lower(lines[1]), "=")
         IN  IF Len(parts) # 2 THEN [exc |-> "ValueError", dict |-> dict]
             ELSE LoadLines(Tail(lines),
                            (Strip(parts[1]) :> StrV(Strip(parts[2]))) @@ dict)

MainIdle ==
    /\ paramsFile = <<>>
    /\ mode = ""
    /\ parameters = EmptyDict
    /\ mainExc = ""
    /\ mainAt = ""

\* main(params, mode) is called
MainStart ==
    /\ pc = "start"
    /\ \E file \in FileInputs, m \in {"phase", "time"} :
          /\ paramsFile' = file
          /\ mode' = m
    /\ pc' = "m_load"
    /\ UNCHANGED <<parameters, mainExc, mainAt>>
    /\ UNCHANGED <<rvData, visVars>>

\* lines 61-69
MainLoad ==
    /\ pc = "m_load"
    /\ LET r == LoadLines(paramsFile, EmptyDict)
       IN  IF r.exc # ""
           THEN /\ mainExc' = r.exc
                /\ mainAt' = "load"
                /\ pc' = "m_end"
                /\ parameters' = parameters
           ELSE /\ parameters' = r.dict
                /\ pc' = "m_float"
                /\ UNCHANGED <<mainExc, mainAt>>
    /\ UNCHANGED <<paramsFile, mode>>
    /\ UNCHANGED <<rvData, visVars>>

\* lines 71-75: float() of the value of every key of the list
MainToFloat ==
    /\ pc = "m_float"
    /\ LET keys == DOMAIN parameters \cap FloatKeys
       IN  IF \E k \in keys : ~IsFloatLiteral(parameters[k].s)
           THEN /\ mainExc' = "ValueError"
                /\ mainAt' = "float"
                /\ pc' = "m_end"
                /\ parameters' = parameters
           ELSE /\ parameters' =
                      [k \in DOMAIN parameters |->
                          IF k \in FloatKeys
                          THEN FloatV(StrToFloat(parameters[k].s))
                          ELSE parameters[k]]
                /\ pc' = "m_k2"
                /\ UNCHANGED <<mainExc, mainAt>>
    /\ UNCHANGED <<paramsFile, mode>>
    /\ UNCHANGED <<rvData, visVars>>

\* parameters[key] for each key in turn, then f of the values; a missing
\* key is a KeyError
WithKeys(k1, k2, k3, f(_, _, _)) ==
    IF {k1, k2, k3} \subseteq DOMAIN parameters
    THEN f(parameters[k1], parameters[k2], parameters[k3])
    ELSE Exc("KeyError")

\* lines 77-89
MainCompanion ==
    /\ pc = "m_k2"
    /\ IF Key_k2 \in DOMAIN parameters
       THEN /\ pc' = "m_mode"
            /\ UNCHANGED <<parameters, mainExc, mainAt>>
       ELSE LET r == IF Key_m_true \in DOMAIN parameters
                     THEN WithKeys(Key_k1, Key_m_star, Key_m_true,
                                   companion_amplitude)
                     ELSE WithKeys(Key_k1, Key_m_star, Key_msini,
                                   companion_amplitude)
            IN  IF r.exc # ""
                THEN /\ mainExc' = r.exc
                     /\ mainAt' = "k2"
                     /\ pc' = "m_end"
                     /\ parameters' = parameters
                ELSE /\ parameters' = (Key_k2 :> FloatV(r.v)) @@ parameters
                     /\ pc' = "m_mode"
                     /\ UNCHANGED <<mainExc, mainAt>>
    /\ UNCHANGED <<paramsFile, mode>>
    /\ UNCHANGED <<rvData, visVars>>

\* the names rv.py defines or imports at module level
ModuleNames == {"argparse", "_parser", "companion_amplitude", "main"}

\* calling a name: one the module does not bind is a NameError
CallName(name) == IF name \in ModuleNames THEN "" ELSE "NameError"

\* the raise statement: raising an object that is neither an exception
\* class nor an instance (such as the constant NotImplemented) is a TypeError
RaiseObject(obj) ==
    IF obj \in {"NotImplementedError", "ValueError", "TypeError",
                "RuntimeError", "KeyError"}
    THEN obj ELSE "TypeError"

\* lines 93-96
MainDispatch ==
    /\ pc = "m_mode"
    /\ mainExc' = IF mode = "phase" THEN CallName("RV_phase_curve")
                  ELSE RaiseObject("NotImplemented")
    /\ mainAt' = "mode"
    /\ pc' = "m_end"
    /\ UNCHANGED <<paramsFile, mode, parameters>>
    /\ UNCHANGED <<rvData, visVars>>

MainNext ==
    \/ MainStart
    \/ MainLoad
    \/ MainToFloat
    \/ MainCompanion
    \/ MainDispatch

\* ------------------------------------------------------------------------
\* visibility.py, the script section (Python 2: the module uses the print
\* statement)
\* ------------------------------------------------------------------------
\* the observatory codes of pyasl.listObservatories(), in the order of
\* sorted(keys, key=lower)
SiteCodes == <<"esolasilla", "esoparanal", "keck", "lapalma">>
AvailableSites == {SiteCodes[i] : i \in 1..Len(SiteCodes)}

\* the names SkyCoord.from_name resolves
Resolvable == {<<"H", "D", "1">>, <<"H", "D", "2">>}

TargetInputs == {<<"H", "D", "1">>, <<"H", "D", "1", ",", "H", "D", "2">>, <<"X", "9">>,
                 <<"X", "9", ",", "H", "D", "2">>}
DateToday == <<"t", "o", "d", "a", "y">>
DateInputs == {DateToday, <<"2", "0", "1", "7", "-", "0", "2", "-", "2", "8">>, <<"2", "0", "1", "7", "-", "0", "2", "-", "3", "0">>,
               <<"2", "0", "1", "7", "-", "0", "3">>, <<"s", "o", "o", "n">>}
SiteInputs == {"esolasilla", "keck", "nowhere", "Keck"}

IsLeap(y) == (y % 4 = 0 /\ y % 100 # 0) \/ y % 400 = 0

DaysIn(y, m) ==
    IF m = 2 THEN (IF IsLeap(y) THEN 29 ELSE 28)
    ELSE IF m \in {4, 6, 9, 11} THEN 30 ELSE 31

\* lines 321-327: "" if the date is accepted, else the exception of
\* int(i) or of datetime(*ymd); a date names at least year, month and day
DateError(date) ==
    IF date = DateToday THEN ""
    ELSE LET parts == Split(date, "-")
             ymd == [i \in 1..Len(parts) |-> DigitsValue(parts[i], 0)]
         IN  IF \E i \in 1..Len(parts) : ~AllDigits(parts[i]) THEN "ValueError"
             ELSE IF Len(ymd) < 3 \/ Len(ymd) > 8 THEN "TypeError"
             ELSE IF /\ ymd[1] \in 1..9999
                     /\ ymd[2] \in 1..12
                     /\ ymd[3] \in 1..DaysIn(ymd[1], ymd[2])
                     /\ Len(ymd) = 3
                  THEN ""
             ELSE "ValueError"

VisIdle ==
    /\ args = [targets |-> <<>>, date |-> <<>>, site |-> "", c |-> FALSE]
    /\ targets = <<>>
    /\ printed = <<>>
    /\ exitStatus = -1
    /\ plotted = FALSE

Out(tag, text) == <<tag, text>>

\* the script is started with a command line
VisStart ==
    /\ pc = "start"
    /\ \E t \in TargetInputs, d \in DateInputs, site \in SiteInputs,
          c \in BOOLEAN :
          args' = [targets |-> t, date |-> d, site |-> site, c |-> c]
    /\ pc' = "v_targets"
    /\ UNCHANGED <<targets, printed, exitStatus, plotted>>
    /\ UNCHANGED <<rvData, mainVars>>

RECURSIVE ResolveAll(_, _, _)
ResolveAll(names, found, out) ==
    IF Len(names) = 0 THEN [found |-> found, out |-> out]
    ELSE IF names[1] \in Resolvable
    THEN ResolveAll(Tail(names), Append(found, names[1]), out)
    ELSE ResolveAll(Tail(names), found,
                    Append(out, Out("could_not_find", names[1])))

\* lines 292-301
VisTargets ==
    /\ pc = "v_targets"
    /\ LET r == ResolveAll(Split(args.targets, ","), <<>>, printed)
       IN  /\ targets' = r.found
           /\ printed' = r.out
    /\ pc' = "v_coords"
    /\ UNCHANGED <<args, exitStatus, plotted>>
    /\ UNCHANGED <<rvData, mainVars>>

\* lines 303-315: with -c the coordinates are printed and the script exits
VisCoords ==
    /\ pc = "v_coords"
    /\ IF args.c
       THEN /\ printed' = printed \o <<Out("coordinates_for", args.targets)>>
                          \o [i \in 1..Len(targets) |-> Out("coord", targets[i])]
            /\ exitStatus' = 0
            /\ pc' = "v_end"
       ELSE /\ pc' = "v_date"
            /\ UNCHANGED <<printed, exitStatus>>
    /\ UNCHANGED <<args, targets, plotted>>
    /\ UNCHANGED <<rvData, mainVars>>

\* lines 317-327; an exception nobody catches ends the script with status 1
VisDate ==
    /\ pc = "v_date"
    /\ IF DateError(args.date) # ""
       THEN /\ printed' = printed \o <<Out("calculating", args.targets),
                                       Out("traceback", <<>>)>>
            /\ exitStatus' = 1
            /\ pc' = "v_end"
       ELSE /\ printed' = printed \o <<Out("calculating", args.targets),
                                       Out("date", args.date)>>
            /\ pc' = "v_site"
            /\ exitStatus' = exitStatus
    /\ UNCHANGED <<args, targets, plotted>>
    /\ UNCHANGED <<rvData, mainVars>>

\* the table without the loop over the codes
CodeTable_HeaderOnly ==
    <<Out("codes_header", <<>>), Out("codes_rule", <<>>)>>

\* the table of the valid codes, lines 334-338
CodeTable ==
    <<Out("codes_header", <<>>), Out("codes_rule", <<>>)>>
    \o [i \in 1..Len(SiteCodes) |-> Out("code", SiteCodes[i])]

\* the test of line 331
SiteUnknown(site) == site \notin AvailableSites

\* lines 329-342
VisSite ==
    /\ pc = "v_site"
    /\ IF SiteUnknown(args.site)
       THEN /\ printed' = printed \o <<Out("not_a_valid_code", args.site)>>
                          \o CodeTable
            /\ exitStatus' = 1
            /\ pc' = "v_end"
       ELSE /\ printed' = printed \o <<Out("site_name", args.site)>>
            /\ pc' = "v_plot"
            /\ exitStatus' = exitStatus
    /\ UNCHANGED <<args, targets, plotted>>
    /\ UNCHANGED <<rvData, mainVars>>

\* line 345
VisPlot ==
    /\ pc = "v_plot"
    /\ plotted' = TRUE
    /\ exitStatus' = 0
    /\ pc' = "v_end"
    /\ UNCHANGED <<args, targets, printed>>
    /\ UNCHANGED <<rvData, mainVars>>

VisNext ==
    \/ VisStart
    \/ VisTargets
    \/ VisCoords
    \/ VisDate
    \/ VisSite
    \/ VisPlot

RVNext ==
    \/ RVNew
    \/ RVFromDict
    \/ TrueAnomalyCall
    \/ TAValidate
    \/ TAIterate
    \/ TAReturn
    \/ rv_at_times
    \/ rv_at_phase
    \/ rv_full_phase
    \/ MaxAmp
    \/ RoundTrip
    \/ RV_from_params
    \/ CompanionAmplitudeCall

vars == <<rvVars, mainVars, visVars>>
Init == RVInitState /\ MainIdle /\ VisIdle
Next == RVNext \/ MainNext \/ VisNext
Spec == Init /\ [][Next]_vars

\* each program on its own
SpecRV == Init /\ [][RVNext]_vars
\* a step of a call of true_anomaly that is under way: the checks, one pass
\* of the loop or the return; each of them changes pc or niteration, and one
\* of them is possible wherever the call stands
SolverRuns ==
    /\ pc \in {"ta_enter", "ta_loop"}
    /\ pc' \in {"ta_loop", "idle", "end"}
    /\ niteration' \in {niteration, niteration + 1}

\* the RV program with the interpreter running a call of true_anomaly it
\* has entered: the call is not left standing for ever
SpecRVFair == SpecRV /\ WF_<<pc, niteration>>(SolverRuns)
SpecMain == Init /\ [][MainNext]_vars
SpecVis == Init /\ [][VisNext]_vars

\* ------------------------------------------------------------------------
\* Properties
\* ------------------------------------------------------------------------
\* an RV instance exists
Constructed == ctorArgs.via # "none" /\ pc # "end"

\* a call of true_anomaly that passed the checks of its argument has ended
SolverEnded == niteration >= 1 /\ ret.kind # "none"

\* C1: true_anomaly returns a result if and only if the last Newton step met
\* the convergence test (norm not above 1e-5) at an iteration n with
\* 1 <= n <= niterationmax, and raises RuntimeError in every other case.
C1_ReturnsIffConverged ==
    SolverEnded =>
        /\ (ret.kind = "value") <=>
               (~AboveTol(lastNorm) /\ niteration <= niterationmax)
        /\ ret.kind = "raise" => ret.exc = "RuntimeError"

\* the omega, in degrees, the evaluation in progress starts from
StoredOmega ==
    IF call.op = "RV_from_params" THEN call.params["omega"] ELSE rv.omega

\* C2: on every evaluation path the omega handed to radial_velocity is the
\* stored degree value converted to radians.
C2_OmegaInRadians ==
    \A i \in 1..Len(rvArgs) : rvArgs[i].omega = DegToRad(StoredOmega)

\* C3: every key of the mapping given to RV.from_dict that is outside the
\* vocabulary is a top-level key of the params of the instance, with the
\* value it had in the mapping.
C3_ExtrasTopLevel ==
    (Constructed /\ ctorArgs.via = "from_dict") =>
        \A k \in DOMAIN ctorArgs.src \ Vocabulary :
            /\ k \in DOMAIN rv.params
            /\ rv.params[k] = ctorArgs.src[k]

\* the numeric keys of the parameter file format
KnownNumeric ==
    {<<"m", "e", "a", "n", "_", "v", "a", "l">>,
     <<"k", "1">>,
     <<"o", "m", "e", "g", "a">>,
     <<"e", "c", "c", "e", "n", "t", "r", "i", "c", "i", "t", "y">>,
     <<"t", "a", "u">>,
     <<"p", "e", "r", "i", "o", "d">>,
     <<"m", "_", "s", "t", "a", "r">>,
     <<"m", "s", "i", "n", "i">>,
     <<"m", "_", "t", "r", "u", "e">>}

\* C4: after the parameter-loading step of main the value of every key of
\* the known numeric set is a float and the value of every other key is a
\* string.
C4_KnownKeysAreFloats ==
    pc = "m_k2" =>
        \A k \in DOMAIN parameters :
            IF k \in KnownNumeric THEN parameters[k].t = "float"
            ELSE parameters[k].t = "str"

\* the value of a key of the parameters as a number
Numeric(val) == IF val.t = "float" THEN val ELSE FloatV(StrToFloat(val.s))

\* the dictionary as the file gives it, before any conversion
Loaded == LoadLines(paramsFile, EmptyDict).dict

\* C5: when the parameters contain k2 it is left unchanged; otherwise k2 is
\* the number companion_amplitude(k1, m_star, m_true) if m_true is present
\* and companion_amplitude(k1, m_star, msini) if not, for every file that
\* supplies k1, m_star and one of m_true, msini (a mass of zero set aside).
C5_CompanionDerived ==
    LET after == pc = "m_mode" \/ (pc = "m_end" /\ mainAt \in {"k2", "mode"})
        has(k) == k \in DOMAIN Loaded
        m == IF has(Key_m_true) THEN Key_m_true ELSE Key_msini
    IN  (/\ after
         /\ has(Key_k1) /\ has(Key_m_star)
         /\ has(Key_m_true) \/ has(Key_msini)
         /\ Numeric(parameters[m]).v # 0)
        => IF has(Key_k2)
           THEN parameters[Key_k2] = Loaded[Key_k2]
           ELSE /\ mainAt # "k2"
                /\ Key_k2 \in DOMAIN parameters
                /\ parameters[Key_k2] =
                      FloatV(companion_amplitude(parameters[Key_k1],
                                                 parameters[Key_m_star],
                                                 Numeric(parameters[m])).v)

\* C6: an empty array raises ValueError and a list of any length raises
\* TypeError, both before any Newton iteration; a scalar becomes a
\* one-element array and goes through the iteration as an array does.
C6_InputValidation ==
    (maKind # "none" /\ pc # "ta_enter") =>
        /\ maKind = "list" =>
              ret = Raise("TypeError") /\ niteration = 0 /\ ea = <<>>
        /\ (maKind = "array" /\ Len(ma) = 0) =>
              ret = Raise("ValueError") /\ niteration = 0 /\ ea = <<>>
        /\ (maKind = "scalar" \/ (maKind = "array" /\ Len(ma) > 0)) =>
              /\ Len(ea) = Len(ma)
              /\ ret.exc \notin {"TypeError", "ValueError"}
              /\ ret.kind # "none" => niteration >= 1
              /\ ret.kind = "value" =>
                    ret.shape = "array" /\ Len(ret.val) = Len(ma)

\* an empty list was refused as a list, not as an empty argument
C6_Witness ==
    /\ pc = "end"
    /\ call.op = "true_anomaly"
    /\ maKind = "list"
    /\ ma = <<>>
    /\ ret = Raise("TypeError")

\* C7: main with mode "time" ends with a NotImplementedError and never calls
\* the phase-curve routine.
C7_TimeModeNotImplemented ==
    (pc = "m_end" /\ mainAt = "mode" /\ mode = "time") =>
        mainExc = "NotImplementedError"

\* the table of the valid codes was printed
TablePrinted ==
    \A code \in AvailableSites :
        \E i \in 1..Len(printed) : printed[i] = Out("code", code)

C9_PeriodPositive == Constructed => rv.period > 0

\* C10: rv_at_times returns a scalar for a scalar time and an array of n
\* values for an array of n times.
C10_ShapePreserved ==
    (call.op = "rv_at_times" /\ ret.kind = "value") =>
        /\ call.tKind = "scalar" => ret.shape = "scalar"
        /\ call.tKind = "array" =>
              ret.shape = "array" /\ Len(ret.val) = Len(call.t)

\* C11: the instance RV.from_dict(m.param_dict()) has the scalar fields
\* semi_amp, period, ecc, tau, gamma and omega of m.
C11_RoundTrip ==
    (call.op = "from_dict" /\ ret.kind = "value") =>
        \A f \in ScalarFields : ret.val[1][f] = rv[f]

\* the round trip of an instance whose six fields are not all alike
C11_Witness ==
    /\ call.op = "from_dict"
    /\ ret.kind = "value"
    /\ rv.tau = Scale
    /\ rv.gamma = 0
    /\ rv.omega = 90 * Scale
    /\ ret.val[1].omega = 90 * Scale

\* the outcome of a call of the copy of rv.py, as an outcome of a call
MainCopyOutcome(k, m, mc) ==
    LET r == companion_amplitude(k, m, mc)
    IN  IF r.exc # "" THEN Raise(r.exc) ELSE Value("scalar", <<r.v>>)

\* C12: for numbers companion_amplitude returns
\* -k_host * (1047.56 * m_host) / m_companion when m_companion # 0 (-10.0 for
\* the arguments 10, 1, 1047.56) and raises the division error when
\* m_companion = 0; the copy of rv.py gives the same outcome for every input.
C12_CompanionAmplitude ==
    call.op = "companion_amplitude" =>
        LET k == call.t[1]
            m == call.t[2]
            mc == call.t[3]
            exact == -((k.v \div Cent) * (m.v \div Cent) * 104756 * Cent)
        IN  /\ (mc.t = "float" /\ mc.v # 0) =>
                  /\ ret.kind = "value"
                  /\ 2 * Abs(ret.val[1] * mc.v - exact) <= Abs(mc.v)
            /\ (k.v = 10 * Cent /\ m.v = Cent /\ mc.t = "float" /\ mc.v = 104756) =>
                  ret.val = <<-10 * Cent>>
            /\ (mc.t = "float" /\ mc.v = 0) => ret = Raise("ZeroDivisionError")
            /\ ret = MainCopyOutcome(k, m, mc)

\* the call companion_amplitude(10, 1, 1047.56) returned -10.0
C12_Witness ==
    /\ call.op = "companion_amplitude"
    /\ call.t = <<FloatV(10 * Cent), FloatV(Cent), FloatV(104756)>>
    /\ ret = Value("scalar", <<-10 * Cent>>)

\* the tolerance 1e-5
Tol == Scale \div TolInv

\* a direct call of true_anomaly returned
SolverReturned == call.op = "true_anomaly" /\ ret.kind = "value"

\* the left-hand side of Kepler's equation E - e*sin(E) - M
KeplerResidual(E, e, M) == FSub(FSub(E, FMul(e, Sin(E))), M)

\* the converged eccentric anomaly solves Kepler's equation within 1e-5
ResidualSmall ==
    \A i \in 1..Len(ea) : Abs(KeplerResidual(ea[i], ecc, ma[i])) <= Tol

\* C13 (as stated): for e = 0 the true anomaly returned equals the mean
\* anomaly for every mean anomaly, those beyond one revolution included, and
\* for every e in [0, 1) the converged E satisfies E - e*sin(E) - M = 0
\* within 1e-5.
C13_CircularTrueEqualsMean ==
    SolverReturned =>
        /\ ecc = 0 => \A i \in 1..Len(ma) : Abs(ret.val[i] - ma[i]) <= Tol
        /\ ResidualSmall

\* C13 (amended): for e = 0 the true anomaly returned equals the mean anomaly
\* modulo 2*pi, and the mean anomaly itself when |M| < 2*pi; for every e in
\* [0, 1) the converged E satisfies E - e*sin(E) - M = 0 within 1e-5.
C13_CircularTrueIsMeanModTwoPi ==
    SolverReturned =>
        /\ ecc = 0 =>
              \A i \in 1..Len(ma) :
                  /\ Abs(Wrap(ret.val[i] - ma[i])) <= Tol
                  /\ Abs(ma[i]) < TwoPi => Abs(ret.val[i] - ma[i]) <= Tol
        /\ ResidualSmall

\* a circular orbit with a mean anomaly beyond one revolution, and an
\* eccentric orbit that converged
C13_Witness ==
    /\ SolverReturned
    /\ \/ ecc = 0 /\ ma = <<7 * Scale, Scale>>
       \/ ecc = (9 * Scale) \div 10 /\ ma = <<Scale>> /\ niteration > 2

\* rv_full_phase(center=0, points=n) was called
FullPhaseAtZero == call.op = "rv_full_phase" /\ call.plist[1] = 0

\* the time rv_at_phase maps a phase to
TimeOfPhase(phase) == FAdd(FMul(phase, rv.period), rv.tau)

\* the first and the last value returned coincide
EndpointsCoincide ==
    (ret.kind = "value" /\ rv.period # 0) =>
        /\ Len(ret.val) = Len(call.t)
        /\ Abs(ret.val[1] - ret.val[Len(ret.val)]) <= Tol

\* C14 (as stated): rv_full_phase(center=0, points=n) evaluates n phase
\* points, the first of them phase 0 and the last phase 1, each mapped to the
\* time phase*period + tau, and the values at the two ends coincide for
\* every model with period # 0 and 0 <= e < 1.
C14_FullPhaseClosedForEveryN ==
    FullPhaseAtZero =>
        LET n == call.plist[2]
        IN  /\ Len(call.t) = n
            /\ n >= 1 =>
                  /\ call.t[1] = TimeOfPhase(0)
                  /\ call.t[n] = TimeOfPhase(Scale)
                  /\ EndpointsCoincide

\* C14 (amended): for n >= 2, rv_full_phase(center=0, points=n) evaluates n
\* phase points, the first of them phase 0 and the last phase 1, each mapped
\* to the time phase*period + tau, and the values at the two ends coincide
\* for every model with period # 0 and 0 <= e < 1; n = 1 evaluates the one
\* phase 0, and n = 0 raises ValueError.
C14_FullPhaseClosed ==
    FullPhaseAtZero =>
        LET n == call.plist[2]
        IN  /\ Len(call.t) = n
            /\ n >= 2 =>
                  /\ call.t[1] = TimeOfPhase(0)
                  /\ call.t[n] = TimeOfPhase(Scale)
                  /\ EndpointsCoincide
            /\ n = 1 => call.t = <<TimeOfPhase(0)>>
            /\ (n = 0 /\ pc = "idle") => ret = Raise("ValueError")

\* a full phase of an eccentric orbit, evaluated at three points
C14_Witness ==
    /\ FullPhaseAtZero
    /\ call.plist[2] = 3
    /\ ret.kind = "value"
    /\ rv.period = 2 * Scale
    /\ rv.ecc = (9 * Scale) \div 10
    /\ rv.semi_amp = 2 * Scale
    /\ call.t[3] = 2 * Scale + rv.tau

\* the number of separators '=' of a line
CountEq(line) == Cardinality({i \in 1..Len(line) : line[i] = "="})

\* the lines of the file that are not comments
DataLines == {i \in 1..Len(paramsFile) : ~StartsWith(paramsFile[i], "#")}

\* the key a line with one separator stores: the text before the
\* separator, lower-cased and trimmed
KeyOf(line) ==
    LET at == CHOOSE i \in 1..Len(line) : line[i] = "="
    IN  Strip(Lower(SubSeq(line, 1, at - 1)))

\* C15: loading skips every line that starts with '#'; a line of any other
\* kind that does not hold exactly one '=' ends main with the parse error of
\* the load (ValueError), no mapping is produced and nothing is plotted; with
\* exactly one '=' in every such line the keys stored are the lower-cased,
\* trimmed texts before the '='.
C15_LoadParsesLines ==
    pc \in {"m_float", "m_k2", "m_mode", "m_end"} =>
        IF \E i \in DataLines : CountEq(paramsFile[i]) # 1
        THEN /\ pc = "m_end"
             /\ mainAt = "load"
             /\ mainExc = "ValueError"
             /\ parameters = EmptyDict
             /\ ~plotted
        ELSE /\ mainAt # "load"
             /\ pc = "m_float" =>
                   DOMAIN parameters = {KeyOf(paramsFile[i]) : i \in DataLines}

\* a file whose comment was skipped and whose line without '=' ended the load
C15_Witness ==
    /\ pc = "m_end"
    /\ mainAt = "load"
    /\ paramsFile = <<LineComment, LineK1, LineNoEq>>
    /\ parameters = EmptyDict

\* C16: rv_at_times, rv_at_phase, rv_full_phase and max_amp leave every
\* field of the instance as it was, the stored omega in degrees included,
\* and true_anomaly and mean_anomaly leave their argument arrays as they
\* were.
C16_EvaluationsPure ==
    [][/\ ctorArgs.via # "none" => rv' = rv
       /\ pc \in {"ta_enter", "ta_loop"} => (ma' = ma /\ call'.t = call.t)]_vars

\* an evaluation of several iterations returned and omega is still 90 degrees
C16_Witness ==
    /\ pc = "idle"
    /\ call.op \in {"rv_at_times", "rv_at_phase", "rv_full_phase"}
    /\ ret.kind = "value"
    /\ niteration > 1
    /\ rv.omega = 90 * Scale
    /\ rv.params["omega"] = 90 * Scale

\* a call of true_anomaly that passed the checks of its argument has ended
PassedAndEnded ==
    /\ maKind # "none"
    /\ pc \notin {"ta_enter", "ta_loop"}
    /\ ValidationError(Promote(maKind), ma) = ""

\* C17: every call of true_anomaly that passes the checks of its argument,
\* with niterationmax >= 1, ends by returning or by raising RuntimeError,
\* after at least one and at most niterationmax Newton iterations; the first
\* iteration runs even when the change of E is zero at the start.
C17_SolverTerminates ==
    /\ [](pc = "ta_loop" => niteration < niterationmax)
    /\ [](PassedAndEnded =>
             /\ ret.kind = "value" \/ ret = Raise("RuntimeError")
             /\ niteration >= 1
             /\ niteration <= niterationmax)
    /\ (pc = "ta_loop" ~> PassedAndEnded)

\* a call whose first pass found no change of E returned after that pass
C17_Witness ==
    /\ PassedAndEnded
    /\ call.op = "true_anomaly"
    /\ ecc = 0
    /\ niteration = 1
    /\ lastNorm = 0
    /\ ret.kind = "value"

====
